---- MODULE Spec2Model ----
(***************************************************************************)
(* Model of database/scripts/init_collections_and_seed.mongosh.js: the     *)
(* schema init + seed script of the express delivery system, run against a *)
(* MongoDB store by one or more mongosh invocations.                       *)
(*                                                                         *)
(* The store is the shared state (collections, indexes, documents); every  *)
(* invocation of the script is a run r with its own position pc[r] in      *)
(* main and its own local constants.  One action is one statement of main  *)
(* that talks to the store.  An upsert is two steps, the query for the     *)
(* key and then the insert of the missing document: the store runs the two *)
(* on one snapshot, so another invocation's insert may fall in between.    *)
(* Time is in milliseconds, read in steps of 30 seconds.                   *)
(***************************************************************************)
EXTENDS Integers, Sequences, FiniteSets, TLC

\* ------------------------------------------------------------------ bounds
\* invocations of the script that the model follows
MaxRuns == 2
\* readings of the wall clock after the first, 30 seconds apart
MaxClock == 2
\* attempts of external actors to insert a user document
MaxExternal == 2

Runs == 1..MaxRuns

\* the times the clock is read at
ClockReadings == {120000 + k * 30000 : k \in 0..MaxClock}

\* null, as in `courierId: null` and as the value of a missing result
Null == 0

\* ------------------------------------------------------- program constants
collections == [users |-> "users", deliveries |-> "deliveries",
                tracking_events |-> "tracking_events",
                notifications |-> "notifications"]

CollectionNames == {collections.users, collections.deliveries,
                    collections.tracking_events, collections.notifications}

customerEmail == "customer@example.com"
courierEmail == "courier@example.com"
deliveryMarker == "seed_delivery_1"

\* ensureCollection(name): the existence check, then the creation
ensureCollection(name) ==
  << [op |-> "getCollectionInfos", name |-> name],
     [op |-> "createCollection", name |-> name] >>

\* The createIndex calls with `unique: true` left out of the first: the fault
\* that email uniqueness excludes.
IndexCallsNotUnique ==
  << [op |-> "createIndex", coll |-> collections.users,
      key |-> << <<"email", 1>> >>, unique |-> FALSE,
      name |-> "users_email_unique"],
     [op |-> "createIndex", coll |-> collections.deliveries,
      key |-> << <<"customerId", 1>> >>, unique |-> FALSE,
      name |-> "deliveries_customerId"],
     [op |-> "createIndex", coll |-> collections.deliveries,
      key |-> << <<"courierId", 1>> >>, unique |-> FALSE,
      name |-> "deliveries_courierId"],
     [op |-> "createIndex", coll |-> collections.deliveries,
      key |-> << <<"status", 1>> >>, unique |-> FALSE,
      name |-> "deliveries_status"],
     [op |-> "createIndex", coll |-> collections.deliveries,
      key |-> << <<"createdAt", -1>> >>, unique |-> FALSE,
      name |-> "deliveries_createdAt_desc"],
     [op |-> "createIndex", coll |-> collections.tracking_events,
      key |-> << <<"deliveryId", 1>>, <<"createdAt", -1>> >>, unique |-> FALSE,
      name |-> "tracking_deliveryId_createdAt_desc"],
     [op |-> "createIndex", coll |-> collections.notifications,
      key |-> << <<"userId", 1>>, <<"read", 1>> >>, unique |-> FALSE,
      name |-> "notifications_userId_read"] >>

\* The createIndex calls with createdAt ascending in deliveries_createdAt_desc:
\* the fault that the index table excludes.
IndexCallsCreatedAtAsc ==
  [IndexCallsNotUnique EXCEPT ![1].unique = TRUE,
                              ![5].key = << <<"createdAt", 1>> >>]

\* The seven createIndex calls of main: collection, key pattern (field and
\* direction, in order), name and uniqueness.
IndexCalls ==
  << [op |-> "createIndex", coll |-> collections.users,
      key |-> << <<"email", 1>> >>, unique |-> TRUE,
      name |-> "users_email_unique"],
     [op |-> "createIndex", coll |-> collections.deliveries,
      key |-> << <<"customerId", 1>> >>, unique |-> FALSE,
      name |-> "deliveries_customerId"],
     [op |-> "createIndex", coll |-> collections.deliveries,
      key |-> << <<"courierId", 1>> >>, unique |-> FALSE,
      name |-> "deliveries_courierId"],
     [op |-> "createIndex", coll |-> collections.deliveries,
      key |-> << <<"status", 1>> >>, unique |-> FALSE,
      name |-> "deliveries_status"],
     [op |-> "createIndex", coll |-> collections.deliveries,
      key |-> << <<"createdAt", -1>> >>, unique |-> FALSE,
      name |-> "deliveries_createdAt_desc"],
     [op |-> "createIndex", coll |-> collections.tracking_events,
      key |-> << <<"deliveryId", 1>>, <<"createdAt", -1>> >>, unique |-> FALSE,
      name |-> "tracking_deliveryId_createdAt_desc"],
     [op |-> "createIndex", coll |-> collections.notifications,
      key |-> << <<"userId", 1>>, <<"read", 1>> >>, unique |-> FALSE,
      name |-> "notifications_userId_read"] >>

\* The seed statements with customerId read from courierUpsert (and the
\* courier's email): the fault that the link of the fixtures to the customer
\* excludes.
SeedCallsCustomerFromCourier ==
  << [op |-> "findOneAndUpdate", stmt |-> "customerUpsert",
      coll |-> collections.users, field |-> "email", value |-> customerEmail],
     [op |-> "findOneAndUpdate", stmt |-> "courierUpsert",
      coll |-> collections.users, field |-> "email", value |-> courierEmail],
     [op |-> "resolve", stmt |-> "customerId", from |-> "courierUpsert",
      coll |-> collections.users, field |-> "email", value |-> courierEmail],
     [op |-> "resolve", stmt |-> "courierId", from |-> "courierUpsert",
      coll |-> collections.users, field |-> "email", value |-> courierEmail],
     [op |-> "findOneAndUpdate", stmt |-> "deliveryUpsert",
      coll |-> collections.deliveries, field |-> "seedMarker",
      value |-> deliveryMarker],
     [op |-> "resolve", stmt |-> "deliveryId", from |-> "deliveryUpsert",
      coll |-> collections.deliveries, field |-> "seedMarker",
      value |-> deliveryMarker],
     [op |-> "updateOne", stmt |-> "event1",
      coll |-> collections.tracking_events, field |-> "seedMarker",
      value |-> "seed_tracking_1"],
     [op |-> "updateOne", stmt |-> "event2",
      coll |-> collections.tracking_events, field |-> "seedMarker",
      value |-> "seed_tracking_2"],
     [op |-> "updateOne", stmt |-> "notification",
      coll |-> collections.notifications, field |-> "seedMarker",
      value |-> "seed_notification_1"] >>

\* The seed statements with the upsert of event2 ahead of that of event1: the
\* fault that the order of seeding excludes.
SeedCallsEvent2First ==
  [SeedCallsCustomerFromCourier EXCEPT
     ![3] = [op |-> "resolve", stmt |-> "customerId", from |-> "customerUpsert",
             coll |-> collections.users, field |-> "email",
             value |-> customerEmail],
     ![7] = SeedCallsCustomerFromCourier[8],
     ![8] = SeedCallsCustomerFromCourier[7]]

\* The seed statements of main, in order.  stmt is the constant the statement
\* defines; a resolve statement reads the result `from` and falls back to
\* findOne by the same key.
SeedCalls ==
  << [op |-> "findOneAndUpdate", stmt |-> "customerUpsert",
      coll |-> collections.users, field |-> "email", value |-> customerEmail],
     [op |-> "findOneAndUpdate", stmt |-> "courierUpsert",
      coll |-> collections.users, field |-> "email", value |-> courierEmail],
     [op |-> "resolve", stmt |-> "customerId", from |-> "customerUpsert",
      coll |-> collections.users, field |-> "email", value |-> customerEmail],
     [op |-> "resolve", stmt |-> "courierId", from |-> "courierUpsert",
      coll |-> collections.users, field |-> "email", value |-> courierEmail],
     [op |-> "findOneAndUpdate", stmt |-> "deliveryUpsert",
      coll |-> collections.deliveries, field |-> "seedMarker",
      value |-> deliveryMarker],
     [op |-> "resolve", stmt |-> "deliveryId", from |-> "deliveryUpsert",
      coll |-> collections.deliveries, field |-> "seedMarker",
      value |-> deliveryMarker],
     [op |-> "updateOne", stmt |-> "event1",
      coll |-> collections.tracking_events, field |-> "seedMarker",
      value |-> "seed_tracking_1"],
     [op |-> "updateOne", stmt |-> "event2",
      coll |-> collections.tracking_events, field |-> "seedMarker",
      value |-> "seed_tracking_2"],
     [op |-> "updateOne", stmt |-> "notification",
      coll |-> collections.notifications, field |-> "seedMarker",
      value |-> "seed_notification_1"] >>

\* main with the seed statements ahead of the createIndex calls: the fault
\* that provision-before-seed excludes.
mainSeedBeforeIndexes ==
  ensureCollection(collections.users) \o ensureCollection(collections.deliveries)
    \o ensureCollection(collections.tracking_events)
    \o ensureCollection(collections.notifications)
    \o SeedCalls \o IndexCalls

\* main, as the sequence of its statements
main ==
  ensureCollection(collections.users) \o ensureCollection(collections.deliveries)
    \o ensureCollection(collections.tracking_events)
    \o ensureCollection(collections.notifications)
    \o IndexCalls \o SeedCalls

\* -------------------------------------------------------------------- state
VARIABLES
  dbCollections,  \* the names of the collections that exist in the store
  indexes,        \* the indexes of the store: [coll, name, key, unique]
  docs,           \* docs[c]: the documents of collection c
  nextId,         \* the next ObjectId the store generates
  clock,          \* the wall clock, in milliseconds
  extInserts,     \* external insert attempts so far
  extResult,      \* the last external insert attempt: its email and outcome
  pc,             \* pc[r]: the statement of main that run r executes next
  status,         \* status[r]: idle, running, done or aborted
  err,            \* err[r]: the error that aborted run r
  local           \* local[r]: the local constants of run r

vars == << dbCollections, indexes, docs, nextId, clock, extInserts, extResult,
           pc, status, err, local >>

store == << dbCollections, indexes, docs, nextId >>

\* the local constants of main before it runs
NoLocals ==
  [now |-> 0, absent |-> FALSE,
   customerUpsert |-> Null, courierUpsert |-> Null, deliveryUpsert |-> Null,
   customerId |-> Null, courierId |-> Null, deliveryId |-> Null]

Init ==
  /\ dbCollections = {}
  /\ indexes = {}
  /\ docs = [c \in CollectionNames |-> {}]
  /\ nextId = 1
  /\ clock = 120000
  /\ extInserts = 0
  /\ extResult = [email |-> "none", outcome |-> "none"]
  /\ pc = [r \in Runs |-> 1]
  /\ status = [r \in Runs |-> "idle"]
  /\ err = [r \in Runs |-> "none"]
  /\ local = [r \in Runs |-> NoLocals]

\* ------------------------------------------------ the $setOnInsert payloads
\* The time of a tracking event with the minutes added to now: the fault
\* that puts the events after their delivery.
EventTimeAfter(now, minutes) == now + minutes * 60 * 1000

\* `new Date(now.getTime() - minutes * 60 * 1000)`: the createdAt of a
\* tracking event, in milliseconds
EventTime(now, minutes) == now - minutes * 60 * 1000

\* The fields statement stmt sets when its upsert inserts, from the local
\* constants l of the run (now and the identifiers resolved so far).
SetOnInsert(stmt, l) ==
  CASE stmt = "customerUpsert" ->
         [email |-> customerEmail,
          password_hash |-> "$2b$10$seed.placeholder.hash.for.customer",
          role |-> "customer", name |-> "Seed Customer",
          phone |-> "+15550000001", createdAt |-> l.now]
    [] stmt = "courierUpsert" ->
         [email |-> courierEmail,
          password_hash |-> "$2b$10$seed.placeholder.hash.for.courier",
          role |-> "courier", name |-> "Seed Courier",
          phone |-> "+15550000002", createdAt |-> l.now]
    [] stmt = "deliveryUpsert" ->
         [seedMarker |-> deliveryMarker,
          customerId |-> l.customerId,
          courierId |-> Null,
          pickupAddress |-> [line1 |-> "123 Pickup St", city |-> "San Francisco",
                             state |-> "CA", postalCode |-> "94103",
                             country |-> "US"],
          dropoffAddress |-> [line1 |-> "987 Dropoff Ave", city |-> "San Francisco",
                              state |-> "CA", postalCode |-> "94107",
                              country |-> "US"],
          packageDetails |-> [description |-> "Small box", weightKg |-> "1.2",
                              fragile |-> FALSE],
          price |-> "19.99",
          status |-> "requested",
          createdAt |-> l.now,
          updatedAt |-> l.now]
    [] stmt = "event1" ->
         [deliveryId |-> l.deliveryId,
          location |-> [lat |-> "37.7749", lng |-> "-122.4194"],
          heading |-> 90, speed |-> "0",
          createdAt |-> EventTime(l.now, 2),
          seedMarker |-> "seed_tracking_1"]
    [] stmt = "event2" ->
         [deliveryId |-> l.deliveryId,
          location |-> [lat |-> "37.7765", lng |-> "-122.4172"],
          heading |-> 95, speed |-> "4.2",
          createdAt |-> EventTime(l.now, 1),
          seedMarker |-> "seed_tracking_2"]
    [] stmt = "notification" ->
         [seedMarker |-> "seed_notification_1",
          userId |-> l.customerId,
          type |-> "delivery_requested",
          title |-> "Delivery requested",
          message |-> "Your delivery request has been created.",
          read |-> FALSE,
          createdAt |-> l.now]

\* a record f with the field _id added
WithId(f, id) ==
  [k \in DOMAIN f \cup {"_id"} |-> IF k = "_id" THEN id ELSE f[k]]

\* ------------------------------------------------------ the store's queries
\* the documents of collection c whose field equals value
Matching(c, field, value) == {d \in docs[c] : d[field] = value}

\* the users collection rejects a second document with the same email when
\* its unique index on email exists
UniqueOn(c, field) ==
  \E i \in indexes : i.coll = c /\ i.unique /\ i.key = << <<field, 1>> >>

\* two documents of c share a value of the field
HasDuplicates(c, field) ==
  \E d1, d2 \in docs[c] : d1 # d2 /\ d1[field] = d2[field]

\* ------------------------------------------------------------ run control
Stmt(r) == main[pc[r]]

Running(r) == status[r] = "running"

\* run r goes on to its next statement, or ends after the last one
Advance(r, n) ==
  /\ pc' = [pc EXCEPT ![r] = @ + n]
  /\ status' = [status EXCEPT ![r] = IF pc[r] + n > Len(main) THEN "done" ELSE @]
  /\ err' = err

\* an exception leaves main: the run stops where it is
Throw(r, e) ==
  /\ pc' = pc
  /\ status' = [status EXCEPT ![r] = "aborted"]
  /\ err' = [err EXCEPT ![r] = e]

\* `const now = new Date()`: the invocation starts and reads the clock, which
\* has moved on by some multiple of 30 seconds.  Runs start in the order of
\* their numbers.
Start(r) ==
  /\ status[r] = "idle"
  /\ \A q \in 1..(r - 1) : status[q] # "idle"
  /\ \E t \in ClockReadings :
       /\ t >= clock
       /\ clock' = t
       /\ local' = [local EXCEPT ![r].now = t]
  /\ status' = [status EXCEPT ![r] = "running"]
  /\ UNCHANGED << store, extInserts, extResult, pc, err >>

\* no other invocation is running
Alone(r) == \A q \in Runs \ {r} : ~Running(q)

\* ------------------------------------------------------------ provisioning
\* ensureCollection: `db.getCollectionInfos({ name }).length > 0`; when the
\* collection exists the creation is skipped
GetCollectionInfos(r) ==
  /\ Running(r)
  /\ Stmt(r).op = "getCollectionInfos"
  /\ IF Stmt(r).name \in dbCollections THEN Advance(r, 2) ELSE Advance(r, 1)
  /\ UNCHANGED << store, clock, extInserts, extResult, local >>

\* ensureCollection: `db.createCollection(name)`, which the store refuses
\* (NamespaceExists) when the collection exists by now
CreateCollection(r) ==
  /\ Running(r)
  /\ Stmt(r).op = "createCollection"
  /\ IF Stmt(r).name \in dbCollections
       THEN Throw(r, "NamespaceExists") /\ dbCollections' = dbCollections
       ELSE Advance(r, 1) /\ dbCollections' = dbCollections \cup {Stmt(r).name}
  /\ UNCHANGED << indexes, docs, nextId, clock, extInserts, extResult, local >>

\* What createIndex(key, {name, unique}) does on collection c of a store
\* with the indexes idx: "exists" (same name, same definition: nothing to
\* do), "conflict" (the name is taken by another definition, or the key
\* pattern by another name: the store refuses), "duplicates" (a unique index
\* cannot be built over duplicate values) or "create".
CreateIndexOutcome(idx, c, key, name, unique) ==
  LET new == [coll |-> c, name |-> name, key |-> key, unique |-> unique]
  IN  IF new \in idx THEN "exists"
      ELSE IF \E i \in idx : i.coll = c /\ (i.name = name \/ i.key = key)
        THEN "conflict"
      ELSE IF unique /\ HasDuplicates(c, key[1][1])
        THEN "duplicates"
      ELSE "create"

\* createIndex as a drop-and-recreate of a conflicting index: the fault that
\* the index conflict rule excludes.
CreateIndexDropAndRecreate(r) ==
  /\ Running(r)
  /\ Stmt(r).op = "createIndex"
  /\ LET s == Stmt(r)
     IN  /\ Advance(r, 1)
         /\ indexes' = {i \in indexes : ~(i.coll = s.coll /\ i.name = s.name)}
              \cup {[coll |-> s.coll, name |-> s.name, key |-> s.key,
                     unique |-> s.unique]}
  /\ UNCHANGED << dbCollections, docs, nextId, clock, extInserts, extResult,
                  local >>

\* `<collection>.createIndex(key, options)`
CreateIndex(r) ==
  /\ Running(r)
  /\ Stmt(r).op = "createIndex"
  /\ LET s == Stmt(r)
         outcome == CreateIndexOutcome(indexes, s.coll, s.key, s.name, s.unique)
     IN  CASE outcome = "exists" ->
                Advance(r, 1) /\ indexes' = indexes
           [] outcome = "conflict" ->
                Throw(r, "IndexConflict") /\ indexes' = indexes
           [] outcome = "duplicates" ->
                Throw(r, "DuplicateKey") /\ indexes' = indexes
           [] outcome = "create" ->
                /\ Advance(r, 1)
                /\ indexes' = indexes \cup
                     {[coll |-> s.coll, name |-> s.name, key |-> s.key,
                       unique |-> s.unique]}
  /\ UNCHANGED << dbCollections, docs, nextId, clock, extInserts, extResult,
                  local >>

\* ------------------------------------------------------------------ seeding
\* The update with $set in place of $setOnInsert: every field of the payload
\* is written to the matched document.
UpdateMatchedSet(d, setOnInsert) ==
  [k \in DOMAIN d |-> IF k \in DOMAIN setOnInsert THEN setOnInsert[k] ELSE d[k]]

\* The update with status and updatedAt under $set: a rerun resets them.
UpdateMatchedResetStatus(d, setOnInsert) ==
  IF "status" \in DOMAIN d
    THEN [d EXCEPT !.status = setOnInsert.status,
                   !.updatedAt = setOnInsert.updatedAt]
    ELSE d

\* What an update of only $setOnInsert fields does to a document d that
\* matched the query: nothing.
UpdateMatched(d, setOnInsert) == d

\* What findOneAndUpdate hands back for the document with identifier id: the
\* document, or nothing when the shell does not return the post-image (main
\* allows for both with `?.` and `||`).
Returned(id) == {id, Null}

\* the local constants of run r after statement s returned ret
Assigned(r, s, ret) ==
  IF s.op = "findOneAndUpdate"
    THEN [local EXCEPT ![r][s.stmt] = ret, ![r].absent = FALSE]
    ELSE [local EXCEPT ![r].absent = FALSE]

\* The upsert as a plain insert: the query never matches.
UpsertQueryNeverMatches(r) ==
  /\ Running(r)
  /\ Stmt(r).op \in {"findOneAndUpdate", "updateOne"}
  /\ ~local[r].absent
  /\ local' = [local EXCEPT ![r].absent = TRUE]
  /\ UNCHANGED << store, clock, extInserts, extResult, pc, status, err >>

\* findOneAndUpdate / updateOne with { upsert: true }, first half: the query
\* for the key.  A match is updated (by $setOnInsert: not at all) and
\* returned; without a match the statement goes on to insert.
UpsertQuery(r) ==
  /\ Running(r)
  /\ Stmt(r).op \in {"findOneAndUpdate", "updateOne"}
  /\ ~local[r].absent
  /\ LET s == Stmt(r)
         found == Matching(s.coll, s.field, s.value)
     IN  IF found = {}
           THEN /\ local' = [local EXCEPT ![r].absent = TRUE]
                /\ UNCHANGED << pc, status, err, docs >>
           ELSE \E d \in found : \E ret \in Returned(d._id) :
                  /\ docs' = [docs EXCEPT ![s.coll] =
                       (@ \ {d}) \cup
                         {UpdateMatched(d, SetOnInsert(s.stmt, local[r]))}]
                  /\ local' = Assigned(r, s, ret)
                  /\ Advance(r, 1)
  /\ UNCHANGED << dbCollections, indexes, nextId, clock, extInserts, extResult >>

\* What the store does with the insert of an upsert whose key is present by
\* now: without a unique index on the key it inserts a second document
\* ("insert"); with one it either fails with a duplicate key error
\* ("DuplicateKey") or runs the upsert again as an update of the document
\* that is there ("retry").
InsertOutcomes(c, field, value) ==
  IF Matching(c, field, value) = {} \/ ~UniqueOn(c, field)
    THEN {"insert"}
    ELSE {"DuplicateKey", "retry"}

\* findOneAndUpdate / updateOne with { upsert: true }, second half: the
\* insert of the $setOnInsert fields under a new identifier
UpsertInsert(r) ==
  /\ Running(r)
  /\ Stmt(r).op \in {"findOneAndUpdate", "updateOne"}
  /\ local[r].absent
  /\ LET s == Stmt(r)
         new == WithId(SetOnInsert(s.stmt, local[r]), nextId)
     IN  \E outcome \in InsertOutcomes(s.coll, s.field, s.value) :
           CASE outcome = "insert" ->
                  \E ret \in Returned(nextId) :
                    /\ docs' = [docs EXCEPT ![s.coll] = @ \cup {new}]
                    /\ nextId' = nextId + 1
                    /\ local' = Assigned(r, s, ret)
                    /\ Advance(r, 1)
             [] outcome = "DuplicateKey" ->
                  /\ Throw(r, "DuplicateKey")
                  /\ UNCHANGED << docs, nextId, local >>
             [] outcome = "retry" ->
                  \E d \in Matching(s.coll, s.field, s.value) :
                    \E ret \in Returned(d._id) :
                      /\ local' = Assigned(r, s, ret)
                      /\ Advance(r, 1)
                      /\ UNCHANGED << docs, nextId >>
  /\ UNCHANGED << dbCollections, indexes, clock, extInserts, extResult >>

\* The resolve statements without the findOne fallback: the identifier is
\* whatever the upsert returned, nothing included.
ResolveNoFallback(r) ==
  /\ Running(r)
  /\ Stmt(r).op = "resolve"
  /\ local' = [local EXCEPT ![r][Stmt(r).stmt] = local[r][Stmt(r).from],
                            ![r][Stmt(r).from] = Null]
  /\ Advance(r, 1)
  /\ UNCHANGED << store, clock, extInserts, extResult >>

\* The resolve statements with a fallback findOne that has no filter: the
\* identifier is that of any document of the collection.
ResolveAnyDocument(r) ==
  /\ Running(r)
  /\ Stmt(r).op = "resolve"
  /\ LET s == Stmt(r)
     IN  IF local[r][s.from] # Null
           THEN /\ local' = [local EXCEPT ![r][s.stmt] = local[r][s.from],
                                          ![r][s.from] = Null]
                /\ Advance(r, 1)
           ELSE IF docs[s.coll] = {}
             THEN Throw(r, "TypeError") /\ local' = local
             ELSE \E d \in docs[s.coll] :
                    /\ local' = [local EXCEPT ![r][s.stmt] = d._id]
                    /\ Advance(r, 1)
  /\ UNCHANGED << store, clock, extInserts, extResult >>

\* The resolve statements with `?.` on the fallback too: when findOne finds
\* no document the identifier is nothing and main goes on.
ResolveOptionalChaining(r) ==
  /\ Running(r)
  /\ Stmt(r).op = "resolve"
  /\ LET s == Stmt(r)
         found == Matching(s.coll, s.field, s.value)
     IN  IF local[r][s.from] # Null
           THEN local' = [local EXCEPT ![r][s.stmt] = local[r][s.from],
                                       ![r][s.from] = Null]
           ELSE IF found = {}
             THEN local' = [local EXCEPT ![r][s.stmt] = Null]
             ELSE \E d \in found : local' = [local EXCEPT ![r][s.stmt] = d._id]
  /\ Advance(r, 1)
  /\ UNCHANGED << store, clock, extInserts, extResult >>

\* `const customerId = customerUpsert?._id || users.findOne({...})._id` and
\* the like for courierId and deliveryId: the identifier of the returned
\* document, or else of the document findOne finds; reading _id of no
\* document throws.  The upsert's result is not read again.
Resolve(r) ==
  /\ Running(r)
  /\ Stmt(r).op = "resolve"
  /\ LET s == Stmt(r)
         found == Matching(s.coll, s.field, s.value)
     IN  IF local[r][s.from] # Null
           THEN /\ local' = [local EXCEPT ![r][s.stmt] = local[r][s.from],
                                          ![r][s.from] = Null]
                /\ Advance(r, 1)
           ELSE IF found = {}
             THEN Throw(r, "TypeError") /\ local' = local
             ELSE \E d \in found :
                    /\ local' = [local EXCEPT ![r][s.stmt] = d._id]
                    /\ Advance(r, 1)
  /\ UNCHANGED << store, clock, extInserts, extResult >>

\* the statement run r is at calls the store
CallsStore(r) ==
  Stmt(r).op = "resolve" => local[r][Stmt(r).from] = Null

\* A failure that cleans up after itself: the seed documents are removed.
FailWithCleanup(r) ==
  /\ Running(r)
  /\ CallsStore(r)
  /\ Throw(r, "Unreachable")
  /\ docs' = [c \in CollectionNames |-> {}]
  /\ UNCHANGED << dbCollections, indexes, nextId, clock, extInserts, extResult,
                  local >>

\* The store is unreachable when run r calls it: the call throws and the
\* run ends there.
Fail(r) ==
  /\ Running(r)
  /\ CallsStore(r)
  /\ Throw(r, "Unreachable")
  /\ UNCHANGED << store, clock, extInserts, extResult, local >>

\* one statement of run r
Step(r) ==
  \/ GetCollectionInfos(r)
  \/ CreateCollection(r)
  \/ CreateIndex(r)
  \/ UpsertQuery(r)
  \/ UpsertInsert(r)
  \/ Resolve(r)

\* ---------------------------------------------------------- external actors
\* A service of the domain moves a delivery on from "requested" and stamps
\* the change.
ExternalSetStatus ==
  /\ \E d \in docs[collections.deliveries] :
       /\ d.status = "requested"
       /\ docs' = [docs EXCEPT ![collections.deliveries] =
            (@ \ {d}) \cup {[d EXCEPT !.status = "assigned", !.updatedAt = clock]}]
  /\ UNCHANGED << dbCollections, indexes, nextId, clock, extInserts, extResult,
                  pc, status, err, local >>

\* Some other client inserts a user document with one of the seed emails.
\* The store rejects it when the unique index on email exists and the email
\* is present; an insert into a missing collection creates the collection.
ExternalInsertUser ==
  /\ extInserts < MaxExternal
  /\ extInserts' = extInserts + 1
  /\ \E email \in {customerEmail, courierEmail} :
       IF UniqueOn(collections.users, "email")
            /\ Matching(collections.users, "email", email) # {}
         THEN /\ extResult' = [email |-> email, outcome |-> "DuplicateKey"]
              /\ UNCHANGED << dbCollections, docs, nextId >>
         ELSE /\ extResult' = [email |-> email, outcome |-> "inserted"]
              /\ docs' = [docs EXCEPT ![collections.users] = @ \cup
                   {[_id |-> nextId, email |-> email,
                     password_hash |-> "external", role |-> "customer",
                     name |-> "External", phone |-> "", createdAt |-> clock]}]
              /\ nextId' = nextId + 1
              /\ dbCollections' = dbCollections \cup {collections.users}
  /\ UNCHANGED << indexes, clock, pc, status, err, local >>

\* the definitions under which an operator may have created an index by hand
\* with the name of call s: another direction of the first key, or the
\* other uniqueness
OtherDefinitions(s) ==
  { [coll |-> s.coll, name |-> s.name, unique |-> s.unique,
     key |-> [s.key EXCEPT ![1] = << s.key[1][1], 0 - s.key[1][2] >>]],
    [coll |-> s.coll, name |-> s.name, unique |-> ~s.unique, key |-> s.key] }

\* index i has the name of one of main's createIndex calls and another
\* definition
Conflicting(i) ==
  \E k \in 1..Len(IndexCalls) :
    i \in OtherDefinitions(IndexCalls[k])

\* An operator creates, by hand, an index that has a name main uses and a
\* different definition; the store holds one such index at most.
ExternalCreateIndex ==
  /\ ~\E i \in indexes : Conflicting(i)
  /\ \E k \in 1..Len(IndexCalls) : \E i \in OtherDefinitions(IndexCalls[k]) :
       /\ CreateIndexOutcome(indexes, i.coll, i.key, i.name, i.unique) = "create"
       /\ indexes' = indexes \cup {i}
       /\ dbCollections' = dbCollections \cup {i.coll}
  /\ UNCHANGED << docs, nextId, clock, extInserts, extResult, pc, status, err,
                  local >>

\* Some other client deletes a user or a delivery.
ExternalDelete ==
  /\ \E c \in {collections.users, collections.deliveries} : \E d \in docs[c] :
       docs' = [docs EXCEPT ![c] = @ \ {d}]
  /\ UNCHANGED << dbCollections, indexes, nextId, clock, extInserts, extResult,
                  pc, status, err, local >>

\* ---------------------------------------------------------- specifications
\* Invocations one after the other, none failing.
NextSeq == \E r \in Runs : (Start(r) /\ Alone(r)) \/ Step(r)

SpecSeq == Init /\ [][NextSeq]_vars

\* Invocations one after the other, any of which may find the store
\* unreachable at any call, while the domain's services move the delivery on.
Next ==
  \/ \E r \in Runs : (Start(r) /\ Alone(r)) \/ Step(r) \/ Fail(r)
  \/ ExternalSetStatus

Spec == Init /\ [][Next]_vars

\* Invocations at the same time, any of which may find the store unreachable.
NextConc == \E r \in Runs : Start(r) \/ Step(r) \/ Fail(r)

SpecConc == Init /\ [][NextConc]_vars

\* Invocations at the same time, beside other clients that insert users.
NextUsers ==
  \/ \E r \in Runs : Start(r) \/ Step(r)
  \/ ExternalInsertUser

SpecUsers == Init /\ [][NextUsers]_vars

\* Invocations one after the other, on a store where an operator creates
\* indexes by hand.
NextIndexes ==
  \/ \E r \in Runs : (Start(r) /\ Alone(r)) \/ Step(r)
  \/ ExternalCreateIndex

SpecIndexes == Init /\ [][NextIndexes]_vars

\* Invocations one after the other, beside other clients that delete users
\* and deliveries.
NextDelete ==
  \/ \E r \in Runs : (Start(r) /\ Alone(r)) \/ Step(r)
  \/ ExternalDelete

SpecDelete == Init /\ [][NextDelete]_vars

\* -------------------------------------------------------------- properties
users == collections.users
deliveries == collections.deliveries
trackingEvents == collections.tracking_events
notifications == collections.notifications

\* the keys of the fixture documents: collection, field, value
SeedKeys ==
  { << users, "email", customerEmail >>,
    << users, "email", courierEmail >>,
    << deliveries, "seedMarker", "seed_delivery_1" >>,
    << trackingEvents, "seedMarker", "seed_tracking_1" >>,
    << trackingEvents, "seedMarker", "seed_tracking_2" >>,
    << notifications, "seedMarker", "seed_notification_1" >> }

Count(k) == Cardinality(Matching(k[1], k[2], k[3]))

\* 1 customer, 1 courier, 1 delivery, 2 tracking events, 1 notification
FixtureCounts ==
  /\ \A k \in SeedKeys : Count(k) = 1
  /\ Cardinality(docs[users]) = 2
  /\ Cardinality(docs[deliveries]) = 1
  /\ Cardinality(docs[trackingEvents]) = 2
  /\ Cardinality(docs[notifications]) = 1

AnyDone == \E r \in Runs : status[r] = "done"

\* the step is a statement of some run (external actors leave the runs alone)
RunStep == pc' # pc \/ status' # status \/ local' # local

\* the identifiers of the documents of collection c
Ids(c) == {d._id : d \in docs[c]}

\* run r is past the last createIndex call
Provisioned(r) == pc[r] > Len(main) - Len(SeedCalls)

\* C1: from an empty store, after every complete run of a sequence of
\* complete runs the store holds exactly 1 customer, 1 courier, 1 delivery,
\* 2 tracking events and 1 notification, and once the first run is complete
\* no document changes in any field (identifiers and timestamps included).
C1_IdempotentRerun ==
  /\ [](AnyDone => FixtureCounts)
  /\ [][AnyDone => docs' = docs]_vars

\* a second run, started at a later time, is complete after the first
C1_Witness ==
  /\ status[1] = "done" /\ status[2] = "done"
  /\ local[2].now > local[1].now

\* C2: a statement of a run changes no field of any document that exists
\* when it executes; a delivery status set by an external actor survives.
C2_NonClobbering ==
  [][RunStep => \A c \in CollectionNames : docs[c] \subseteq docs'[c]]_vars

\* a run that started after the external change of the status is complete,
\* and the delivery it resolved still has the external status
C2_Witness ==
  \E r \in Runs : \E d \in docs[deliveries] :
    /\ d.status = "assigned"
    /\ status[r] = "done"
    /\ local[r].now > d.updatedAt
    /\ local[r].deliveryId = d._id

\* C3: once an invocation is complete, exactly one document exists for each
\* identifying key, and never more than one, however the invocations
\* interleave.
C3_OneDocumentPerKey ==
  \A k \in SeedKeys : Count(k) <= 1 /\ (AnyDone => Count(k) = 1)

\* C4: no invocation is aborted by the uniqueness conflict of a seed email.
C4_LoserContinues ==
  \A r \in Runs : ~(status[r] = "aborted" /\ err[r] = "DuplicateKey")

\* C5: every delivery's customerId is the identifier of a user, every
\* tracking event's deliveryId that of a delivery, every notification's
\* userId that of a user, in every state, aborted runs included.
C5_ReferentialIntegrity ==
  /\ \A d \in docs[deliveries] : d.customerId \in Ids(users)
  /\ \A e \in docs[trackingEvents] : e.deliveryId \in Ids(deliveries)
  /\ \A n \in docs[notifications] : n.userId \in Ids(users)

\* a run aborted between the two tracking events while the other is complete
C5_Witness ==
  \E r, q \in Runs :
    /\ status[r] = "aborted" /\ Provisioned(r) /\ Stmt(r).stmt = "event2"
    /\ status[q] = "done"
    /\ docs[trackingEvents] # {}

\* the users collection has the index named users_email_unique
UsersIndexProvisioned ==
  \E i \in indexes : i.coll = users /\ i.name = "users_email_unique"

\* C6: while the users index is there no two users share an email, and an
\* external insert of an email that is present is rejected with a duplicate
\* key error and changes no document.
C6_EmailUnique ==
  /\ [](UsersIndexProvisioned => ~HasDuplicates(users, "email"))
  /\ [][(/\ extInserts' # extInserts
         /\ UsersIndexProvisioned
         /\ Matching(users, "email", extResult'.email) # {})
        => (extResult'.outcome = "DuplicateKey" /\ docs' = docs)]_vars

\* an external insert was rejected while two runs were under way
C6_Witness ==
  /\ extResult.outcome = "DuplicateKey"
  /\ \A r \in {1, 2} : status[r] = "running"

\* the index table of the specification: one row per index
IndexTable ==
  { [coll |-> "users", name |-> "users_email_unique",
     key |-> << <<"email", 1>> >>, unique |-> TRUE],
    [coll |-> "deliveries", name |-> "deliveries_customerId",
     key |-> << <<"customerId", 1>> >>, unique |-> FALSE],
    [coll |-> "deliveries", name |-> "deliveries_courierId",
     key |-> << <<"courierId", 1>> >>, unique |-> FALSE],
    [coll |-> "deliveries", name |-> "deliveries_status",
     key |-> << <<"status", 1>> >>, unique |-> FALSE],
    [coll |-> "deliveries", name |-> "deliveries_createdAt_desc",
     key |-> << <<"createdAt", -1>> >>, unique |-> FALSE],
    [coll |-> "tracking_events", name |-> "tracking_deliveryId_createdAt_desc",
     key |-> << <<"deliveryId", 1>>, <<"createdAt", -1>> >>, unique |-> FALSE],
    [coll |-> "notifications", name |-> "notifications_userId_read",
     key |-> << <<"userId", 1>>, <<"read", 1>> >>, unique |-> FALSE] }

\* C7: once a run is past provisioning, the indexes of the store are exactly
\* the rows of the index table, and stay so through every later run.
C7_IndexesMatchTable ==
  (\E r \in Runs : Provisioned(r)) => indexes = IndexTable

\* a second run has provisioned again after a complete one
C7_Witness ==
  status[1] = "done" /\ status[2] = "running" /\ Provisioned(2)

\* the position in main of the createIndex call with the given name
CallOf(name) ==
  CHOOSE p \in 1..Len(main) : main[p].op = "createIndex" /\ main[p].name = name

\* C8: while an index with a required name and another definition exists, no
\* run gets past the createIndex call of that name: the call ends the run
\* with an index conflict; and no index is ever dropped or altered.
C8_IndexConflictAborts ==
  /\ [](\A i \in indexes : Conflicting(i) =>
          \A r \in Runs : pc[r] <= CallOf(i.name) /\ status[r] # "done")
  /\ [][/\ indexes \subseteq indexes'
        /\ \A r \in Runs :
             (/\ Running(r)
              /\ \E i \in indexes : Conflicting(i) /\ pc[r] = CallOf(i.name)
              /\ (pc'[r] # pc[r] \/ status'[r] # status[r]))
             => (/\ status'[r] = "aborted"
                 /\ err'[r] = "IndexConflict"
                 /\ pc'[r] = pc[r])]_vars

\* a run was aborted by the conflict, and the conflicting index is there
C8_Witness ==
  /\ \E r \in Runs : status[r] = "aborted" /\ err[r] = "IndexConflict"
  /\ \E i \in indexes : Conflicting(i)

\* C9: the step that aborts a run leaves the store as it is, and an aborted
\* run executes nothing more.
C9_AbortSemantics ==
  [][\A r \in Runs :
       /\ (status[r] = "running" /\ status'[r] = "aborted") => store' = store
       /\ status[r] = "aborted" =>
            (status'[r] = "aborted" /\ pc'[r] = pc[r] /\ local'[r] = local[r])
    ]_vars

\* the first run was aborted by an unreachable store after it had inserted
\* the delivery, and the delivery is there
C9_Witness ==
  /\ status[1] = "aborted" /\ err[1] = "Unreachable"
  /\ \E d \in docs[deliveries] : d.createdAt = local[1].now
  /\ status[2] = "idle"

\* C10: a run that completes, after whatever runs aborted before it, leaves
\* exactly the complete fixture set; no document ever disappears, and the
\* runs leave the documents they find as they are.
C10_RecoveryByRerun ==
  /\ [](AnyDone => FixtureCounts)
  /\ [][\A c \in CollectionNames : \A d \in docs[c] :
          \E e \in docs'[c] : e._id = d._id /\ (RunStep => e = d)]_vars

\* the first run aborted after it had inserted tracking event 1; a later run
\* is complete and the store has documents of both
C10_Witness ==
  /\ status[1] = "aborted" /\ status[2] = "done"
  /\ local[2].now > local[1].now
  /\ \E e \in docs[trackingEvents] : e.createdAt = local[1].now - 2 * 60 * 1000
  /\ \E n \in docs[notifications] : n.createdAt = local[2].now

\* C11: every user document has exactly the fields of the User data model:
\* email, passwordHash, role (customer or courier), name, phone, createdAt,
\* and its identifier.
C11_UserFields ==
  \A u \in docs[users] :
    /\ DOMAIN u = {"_id", "email", "passwordHash", "role", "name", "phone",
                   "createdAt"}
    /\ u.role \in {"customer", "courier"}

\* the step is a statement of run r
StepOf(r) == pc'[r] # pc[r] \/ status'[r] # status[r] \/ local'[r] # local[r]

\* C12: a run inserts a document, or executes any seed statement, only when
\* it is past provisioning, the four collections exist and the seven indexes
\* of the table exist (the unique email index among them); a run that aborts
\* during provisioning has therefore inserted nothing.
C12_ProvisionBeforeSeed ==
  [][\A r \in Runs :
       (StepOf(r) /\ (docs' # docs \/ Provisioned(r)))
       => (/\ Provisioned(r)
           /\ CollectionNames \subseteq dbCollections
           /\ IndexTable \subseteq indexes
           /\ UniqueOn(users, "email"))]_vars

\* one run aborted during index provisioning, the other has inserted users
C12_Witness ==
  /\ status[1] = "aborted" /\ ~Provisioned(1) /\ Stmt(1).op = "createIndex"
  /\ status[2] = "running" /\ docs[users] # {}

\* the keys of the fixture documents in the order of seeding
SeedOrder ==
  << << users, "email", customerEmail >>,
     << users, "email", courierEmail >>,
     << deliveries, "seedMarker", "seed_delivery_1" >>,
     << trackingEvents, "seedMarker", "seed_tracking_1" >>,
     << trackingEvents, "seedMarker", "seed_tracking_2" >>,
     << notifications, "seedMarker", "seed_notification_1" >> >>

\* run r is executing a seed statement
Seeding(r) == Running(r) /\ Provisioned(r)

\* C13: a fixture document exists only when those before it in the order
\* customer, courier, delivery, event 1, event 2, notification exist; a run
\* issues the delivery upsert only with both user identifiers resolved, and
\* the tracking event and notification upserts only with the delivery
\* identifier resolved; a run never goes back in main.
C13_DependencyOrder ==
  /\ [](\A j, k \in 1..Len(SeedOrder) :
          (j < k /\ Count(SeedOrder[k]) >= 1) => Count(SeedOrder[j]) >= 1)
  /\ [][\A r \in Runs :
          /\ pc'[r] >= pc[r]
          /\ (Seeding(r) /\ StepOf(r) /\ Stmt(r).stmt = "deliveryUpsert")
             => (local[r].customerId # Null /\ local[r].courierId # Null)
          /\ (Seeding(r) /\ StepOf(r)
                /\ Stmt(r).stmt \in {"event1", "event2", "notification"})
             => (local[r].deliveryId # Null /\ local[r].customerId # Null)]_vars

\* a run is at the notification with both tracking events in the store,
\* while the other run has not resolved the delivery yet
C13_Witness ==
  \E r, q \in Runs :
    /\ Seeding(r) /\ Stmt(r).stmt = "notification"
    /\ Seeding(q) /\ Stmt(q).stmt = "deliveryUpsert"
    /\ Count(SeedOrder[4]) >= 1 /\ Count(SeedOrder[5]) >= 1

\* the identifiers of the documents stored under key k
IdsOf(k) == {d._id : d \in Matching(k[1], k[2], k[3])}

\* C14: an identifier a run has resolved is the identifier of a document
\* stored under the key of its statement (the customer's email, the
\* courier's email, the delivery marker), whether the upsert inserted,
\* matched or returned nothing; and every tracking event carries the
\* identifier of a document stored under the delivery marker.
C14_IdResolution ==
  /\ \A r \in Runs :
       /\ local[r].customerId # Null => local[r].customerId \in IdsOf(SeedOrder[1])
       /\ local[r].courierId # Null => local[r].courierId \in IdsOf(SeedOrder[2])
       /\ local[r].deliveryId # Null => local[r].deliveryId \in IdsOf(SeedOrder[3])
  /\ \A e \in docs[trackingEvents] : e.deliveryId \in IdsOf(SeedOrder[3])

\* a complete run resolved the delivery another run had inserted and gave
\* its identifier to the tracking event it inserted itself
C14_Witness ==
  \E r \in Runs : \E d \in docs[deliveries] : \E e \in docs[trackingEvents] :
    /\ status[r] = "done"
    /\ d._id = local[r].deliveryId /\ d.createdAt # local[r].now
    /\ e.deliveryId = d._id /\ e.seedMarker = "seed_tracking_1"
    /\ e.createdAt = local[r].now - 2 * 60 * 1000

\* C18: by the runs alone, every seed delivery has the customer's identifier
\* as customerId, no courier and the status "requested", and every seed
\* notification has the customer's identifier as userId.
C18_LinkedToCustomer ==
  /\ \A d \in Matching(deliveries, "seedMarker", "seed_delivery_1") :
       /\ d.customerId \in IdsOf(SeedOrder[1])
       /\ d.courierId = Null
       /\ d.status = "requested"
  /\ \A n \in Matching(notifications, "seedMarker", "seed_notification_1") :
       n.userId \in IdsOf(SeedOrder[1])

\* both runs are complete and the delivery and the notification are there
C18_Witness ==
  /\ \A r \in {1, 2} : status[r] = "done"
  /\ Count(SeedOrder[3]) >= 1 /\ Count(SeedOrder[6]) >= 1

\* run r is at a resolve statement whose upsert returned nothing and whose
\* lookup by key finds no document
ParentMissing(r) ==
  /\ Running(r)
  /\ Stmt(r).op = "resolve"
  /\ local[r][Stmt(r).from] = Null
  /\ Matching(Stmt(r).coll, Stmt(r).field, Stmt(r).value) = {}

\* C15: a run that cannot resolve a parent identifier ends there with an
\* error, inserts nothing and executes nothing more; no delivery has a null
\* customerId, no tracking event a null deliveryId, no notification a null
\* userId.
C15_MissingParentAborts ==
  /\ [](/\ \A d \in docs[deliveries] : d.customerId # Null
        /\ \A e \in docs[trackingEvents] : e.deliveryId # Null
        /\ \A n \in docs[notifications] : n.userId # Null)
  /\ [][\A r \in Runs :
          /\ (ParentMissing(r) /\ StepOf(r))
             => (status'[r] = "aborted" /\ err'[r] = "TypeError"
                 /\ docs' = docs)
          /\ err[r] = "TypeError"
             => (status'[r] = "aborted" /\ pc'[r] = pc[r])]_vars

\* a run ended at the lookup of a delivery that was deleted under it
C15_Witness ==
  \E r \in Runs :
    /\ status[r] = "aborted" /\ err[r] = "TypeError"
    /\ Stmt(r).stmt = "deliveryId"
    /\ docs[users] # {}

\* C16: whenever both seed tracking events exist, every seed_tracking_2
\* document has a createdAt strictly later than every seed_tracking_1
\* document, whichever runs inserted them.
C16_Event2Later ==
  \A e1 \in Matching(trackingEvents, "seedMarker", "seed_tracking_1") :
    \A e2 \in Matching(trackingEvents, "seedMarker", "seed_tracking_2") :
      e2.createdAt > e1.createdAt

\* C17: no invocation is ended by ensureCollection: createCollection never
\* fails because the collection exists.
C17_EnsureNeverFails ==
  \A r \in Runs : ~(status[r] = "aborted" /\ err[r] = "NamespaceExists")

\* C19: a tracking event has a createdAt strictly earlier than the createdAt
\* of the delivery it references, when one run inserts them all.
C19_EventsPredateDelivery ==
  \A d \in docs[deliveries] : \A e \in docs[trackingEvents] :
    e.deliveryId = d._id => e.createdAt < d.createdAt

\* the first run has inserted the delivery and both tracking events
C19_Witness ==
  /\ status[2] = "idle"
  /\ Count(SeedOrder[3]) = 1
  /\ \E e1, e2 \in docs[trackingEvents] :
       /\ e1.seedMarker = "seed_tracking_1" /\ e2.seedMarker = "seed_tracking_2"
       /\ e1.deliveryId = local[1].deliveryId
       /\ e2.deliveryId = local[1].deliveryId

====
